---- MODULE Spec2Model ----
(***************************************************************************)
(* FactoryAI orchestrator: the configuration record, the part of the       *)
(* filesystem the orchestrator looks at, and the operations of             *)
(* FactoryAIOrchestrator (core.py) with the helpers of utils.py they call. *)
(*                                                                         *)
(* A path is a sequence of segments.  Text (error messages, command        *)
(* lines) is a sequence of string tokens, in the order the f-strings of    *)
(* the source put them.  One orchestrator call is one action; it leaves    *)
(* its inputs in `call`, what the caller receives in `outcome` and the     *)
(* side effects it attempted, in order, in `trace`.  `reported` is what    *)
(* the caller remembers of the availability an earlier call reported.      *)
(***************************************************************************)
EXTENDS Integers, Sequences, FiniteSets, TLC

VARIABLES fs, config, call, outcome, trace, reported

vars == <<fs, config, call, outcome, trace, reported>>

(***************************************************************************)
(* Bounds of the model.                                                    *)
(***************************************************************************)
\* component paths that exist on disk at the same time
MaxComponentDirs == 1
\* enabled flags that differ from their constructed value at the same time
MaxToggles == 1

(***************************************************************************)
(* Paths and the filesystem.                                               *)
(***************************************************************************)
NoPath == <<>>

\* an absolute path starts with the root marker "/"
IsAbsolute(p) == p # <<>> /\ p[1] = "/"

\* pathlib's p / rel: an absolute right operand replaces the left one
Join(p, rel) == IF IsAbsolute(rel) THEN rel ELSE p \o rel

Parent(p) == SubSeq(p, 1, Len(p) - 1)

IsPrefix(p, q) == Len(p) <= Len(q) /\ SubSeq(q, 1, Len(p)) = p

Exists(f, p) == p \in DOMAIN f /\ f[p] # "none"

IsDir(f, p) == p \in DOMAIN f /\ f[p] = "dir"

\* str(path): the segments with "/" between them, "." for the empty path
RECURSIVE SegmentsStr(_)
SegmentsStr(segs) ==
    IF segs = <<>> THEN <<>>
    ELSE IF Len(segs) = 1 THEN segs
    ELSE <<Head(segs), "/">> \o SegmentsStr(Tail(segs))

PathStr(p) ==
    IF p = <<>> THEN <<".">>
    ELSE IF IsAbsolute(p) THEN <<"/">> \o SegmentsStr(Tail(p))
    ELSE SegmentsStr(p)

\* Path(text): the segments between the separators; "." segments vanish
RECURSIVE TextSegments(_)
TextSegments(text) ==
    IF text = <<>> THEN <<>>
    ELSE IF Head(text) \in {"/", "."} THEN TextSegments(Tail(text))
    ELSE <<Head(text)>> \o TextSegments(Tail(text))

ParsePath(text) ==
    IF text # <<>> /\ Head(text) = "/"
    THEN <<"/">> \o TextSegments(Tail(text))
    ELSE TextSegments(text)

\* pathlib mkdir(parents=True, exist_ok=True) when it succeeds
MkdirParents(f, p) ==
    [q \in DOMAIN f |-> IF IsPrefix(q, p) THEN "dir" ELSE f[q]]

\* shutil.rmtree / unlink: the path and everything below it
RemoveTree(f, p) ==
    [q \in DOMAIN f |-> IF IsPrefix(p, q) THEN "none" ELSE f[q]]

(***************************************************************************)
(* Configuration (config.py).                                              *)
(***************************************************************************)
SubmoduleConfig(name, path, url, enabled) ==
    [name |-> name, path |-> path, url |-> url, enabled |-> enabled]

DefaultComponents ==
    [id \in {"factory-app-ai", "factory-feature", "factory-debug"} |->
        CASE id = "factory-app-ai" ->
                SubmoduleConfig("Factory-App-AI",
                                <<"src", "platfom", "Factory-App-AI">>,
                                "https://github.com/ruslanmv/Factory-App-AI",
                                TRUE)
          [] id = "factory-feature" ->
                SubmoduleConfig("Factory-Feature",
                                <<"src", "platfom", "Factory-Feature">>,
                                "https://github.com/ruslanmv/Factory-Feature",
                                TRUE)
          [] OTHER ->
                SubmoduleConfig("Factory-Debug",
                                <<"src", "platfom", "Factory-Debug">>,
                                "https://github.com/ruslanmv/Factory-Debug",
                                FALSE)]

RootDir == <<"/", "root">>

\* the component mapping of field(default_factory=dict)
NoComponents == <<>>

\* the default of the submodules_dir field
DefaultSubmodulesDir == <<"src", "platfom">>

\* variant: the defaults are installed whatever mapping was supplied
post_init_AlwaysDefaults(root_dir, submodules_dir, log_level, log_file, components) ==
    [root_dir       |-> root_dir,
     submodules_dir |-> IF ~IsAbsolute(submodules_dir)
                        THEN Join(root_dir, submodules_dir)
                        ELSE submodules_dir,
     log_level      |-> log_level,
     log_file       |-> log_file,
     components     |-> DefaultComponents]

\* the dataclass constructor followed by __post_init__: a submodules_dir
\* that is not absolute is joined to root_dir, an empty component mapping is
\* replaced by the defaults
post_init(root_dir, submodules_dir, log_level, log_file, components) ==
    [root_dir       |-> root_dir,
     submodules_dir |-> IF ~IsAbsolute(submodules_dir)
                        THEN Join(root_dir, submodules_dir)
                        ELSE submodules_dir,
     log_level      |-> log_level,
     log_file       |-> log_file,
     components     |-> IF DOMAIN components = {}
                        THEN DefaultComponents
                        ELSE components]

\* FactoryAIConfig(root_dir=RootDir)
FactoryAIConfig ==
    post_init(RootDir, DefaultSubmodulesDir, "INFO", NoPath, NoComponents)

get_component_path(cfg, component_name) ==
    Join(cfg.root_dir, cfg.components[component_name].path)

\* variant: a component that is not enabled is not available
is_component_available_NeedsEnabled(cfg, f, component_name) ==
    IF component_name \notin DOMAIN cfg.components
    THEN FALSE
    ELSE LET component_path == Join(cfg.root_dir,
                                    cfg.components[component_name].path)
         IN  /\ Exists(f, component_path) /\ IsDir(f, component_path)
             /\ cfg.components[component_name].enabled

is_component_available(cfg, f, component_name) ==
    IF component_name \notin DOMAIN cfg.components
    THEN FALSE
    ELSE LET component_path == get_component_path(cfg, component_name)
         IN  Exists(f, component_path) /\ IsDir(f, component_path)

(***************************************************************************)
(* The paths the orchestrator can look at under the constructed            *)
(* configuration.                                                          *)
(***************************************************************************)
GitDir == Join(RootDir, <<".git">>)

ComponentPaths ==
    {get_component_path(FactoryAIConfig, id) :
        id \in DOMAIN FactoryAIConfig.components}

EntryPoints == {"main.py", "app.py"}

ScriptPaths == {Join(p, <<s>>) : p \in ComponentPaths, s \in EntryPoints}

DirPaths ==
    {RootDir, GitDir, Parent(FactoryAIConfig.submodules_dir),
     FactoryAIConfig.submodules_dir} \cup ComponentPaths

Paths == DirPaths \cup ScriptPaths

Kinds == {"none", "file", "dir"}

\* the temporary root directory of a session, empty
EmptyRoot == [p \in Paths |-> IF p = RootDir THEN "dir" ELSE "none"]

ComponentsOnDisk(f) == {p \in ComponentPaths : Exists(f, p)}

\* the components whose flag differs from the one they are created with:
\* that of the default mapping, or the field's default for any other id
Toggled(cfg) ==
    {id \in DOMAIN cfg.components :
        cfg.components[id].enabled #
            (IF id \in DOMAIN DefaultComponents
             THEN DefaultComponents[id].enabled
             ELSE TRUE)}

(***************************************************************************)
(* Text.  str(int) is the decimal numeral, ' '.join(argv) the words of     *)
(* the command line one after the other.  A word of a command line is a    *)
(* sequence of tokens: <<"python">>, or the segments of a path.            *)
(***************************************************************************)
Digit(d) == <<"0", "1", "2", "3", "4", "5", "6", "7", "8", "9">>[d + 1]

RECURSIVE Numeral(_)
Numeral(n) == IF n < 10 THEN <<Digit(n)>>
              ELSE Append(Numeral(n \div 10), Digit(n % 10))

IntStr(n) == IF n < 0 THEN <<"-">> \o Numeral(0 - n) ELSE Numeral(n)

Word(s) == <<s>>

RECURSIVE JoinWords(_)
JoinWords(argv) == IF argv = <<>> THEN <<>>
                   ELSE Head(argv) \o JoinWords(Tail(argv))

(***************************************************************************)
(* Exceptions (exceptions.py) and the built-in OS errors.                  *)
(***************************************************************************)
NoDetails == <<>>

NoError == [kind |-> "none", message |-> <<>>, details |-> NoDetails]

FactoryAIError(message, details) ==
    [kind |-> "FactoryAIError", message |-> message, details |-> details]

SubmoduleNotFoundError(submodule_name) ==
    [kind    |-> "SubmoduleNotFoundError",
     message |-> <<"Submodule '", submodule_name,
                   "' not found or not initialized.">>,
     details |-> <<"Run 'factoryai sync' or 'make sync' to initialize submodules.">>]

ConfigurationError(message) ==
    [kind |-> "ConfigurationError", message |-> message, details |-> NoDetails]

ComponentError(component, message) ==
    [kind    |-> "ComponentError",
     message |-> <<"Component '", component, "' failed: ">> \o message,
     details |-> NoDetails]

\* FileNotFoundError / PermissionError raised by the OS for a program or path
OSError(kind, what) ==
    [kind    |-> kind,
     message |-> IF kind = "FileNotFoundError"
                 THEN <<"[Errno 2] No such file or directory: ">> \o what
                 ELSE <<"[Errno 13] Permission denied: ">> \o what,
     details |-> NoDetails]

\* the classes that derive from FactoryAIError
FactoryAIErrorKinds ==
    {"FactoryAIError", "SubmoduleNotFoundError", "ConfigurationError",
     "ComponentError", "ValidationError"}

\* FactoryAIError.__str__; a built-in error prints its message
Str(e) == IF e.kind \in FactoryAIErrorKinds /\ e.details # NoDetails
          THEN e.message \o <<"\nDetails: ">> \o e.details
          ELSE e.message

(***************************************************************************)
(* What a call hands back: a value or a raised error.                      *)
(***************************************************************************)
NoValue == "None"

Return(v) == [kind |-> "return", value |-> v, error |-> NoError]

Raise(e) == [kind |-> "raise", value |-> NoValue, error |-> e]

(***************************************************************************)
(* Child processes.  What the operating system answers to one spawn is     *)
(* the environment's choice: the child runs and exits with a code, or the  *)
(* spawn itself fails.                                                     *)
(***************************************************************************)
ExitCodes == {0, 1, 2, -9}

SpawnFailures == {"FileNotFoundError", "PermissionError"}

SpawnOutcomes ==
    {[type |-> "exit", code |-> c, error |-> "none"] : c \in ExitCodes}
    \cup {[type |-> "oserror", code |-> 0, error |-> k] : k \in SpawnFailures}

ChildStdout == "<stdout>"

ChildStderr == "<stderr>"

SpawnEvent(argv, cwd, check, o) ==
    [ev |-> "spawn", argv |-> argv, path |-> cwd, check |-> check, result |-> o]

MkdirEvent(path, o) ==
    [ev |-> "mkdir", argv |-> <<>>, path |-> path, check |-> FALSE, result |-> o]

\* subprocess.run(command, cwd=cwd).returncode
subprocess_run(command, cwd, o) ==
    IF o.type = "oserror"
    THEN Raise(OSError(o.error, command[1]))
    ELSE Return(o.code)

\* variant: the exit code is never checked
run_command_Unchecked(command, cwd, capture_output, check, o) ==
    LET result == subprocess_run(command, cwd, o)
        stdout == IF capture_output THEN ChildStdout ELSE ""
        stderr == IF capture_output THEN ChildStderr ELSE ""
    IN  IF result.kind = "return"
        THEN Return(<<result.value, stdout, stderr>>)
        ELSE IF result.error.kind = "FileNotFoundError"
        THEN Raise(FactoryAIError(
                 <<"Command not found: ">> \o command[1],
                 <<"Please ensure the command is installed and in your PATH.">>))
        ELSE Raise(FactoryAIError(
                 <<"Failed to run command: ">> \o Str(result.error), NoDetails))

\* variant: only FileNotFoundError is handled, any other failure of the
\* launch leaves the function as it is
run_command_OnlyNotFound(command, cwd, capture_output, check, o) ==
    LET result == subprocess_run(command, cwd, o)
        stdout == IF capture_output THEN ChildStdout ELSE ""
        stderr == IF capture_output THEN ChildStderr ELSE ""
    IN  IF result.kind = "raise"
        THEN IF result.error.kind = "FileNotFoundError"
             THEN Raise(FactoryAIError(
                      <<"Command not found: ">> \o command[1],
                      <<"Please ensure the command is installed and in your PATH.">>))
             ELSE result
        ELSE IF check /\ result.value # 0
        THEN Raise(FactoryAIError(
                 <<"Failed to run command: Command failed with exit code ">>
                     \o IntStr(result.value), NoDetails))
        ELSE Return(<<result.value, stdout, stderr>>)

\* utils.run_command: the raise for a failed check happens inside the try
\* block, so the handler for Exception catches it and raises its own error
run_command(command, cwd, capture_output, check, o) ==
    LET result == subprocess_run(command, cwd, o)
        stdout == IF capture_output THEN ChildStdout ELSE ""
        stderr == IF capture_output THEN ChildStderr ELSE ""
        body   == IF result.kind = "raise" THEN result
                  ELSE IF check /\ result.value # 0
                  THEN Raise(FactoryAIError(
                           <<"Command failed with exit code ">>
                               \o IntStr(result.value),
                           <<"Command: ">> \o JoinWords(command)
                               \o <<"\nStderr: ", stderr>>))
                  ELSE Return(<<result.value, stdout, stderr>>)
    IN  IF body.kind = "return" THEN body
        ELSE IF body.error.kind = "FileNotFoundError"
        THEN Raise(FactoryAIError(
                 <<"Command not found: ">> \o command[1],
                 <<"Please ensure the command is installed and in your PATH.">>))
        ELSE Raise(FactoryAIError(
                 <<"Failed to run command: ">> \o Str(body.error), NoDetails))

\* check_git_installed as a call: True, or False when run_command raised a
\* FactoryAIError; an error of another kind is not caught
check_git_installed_outcome(o) ==
    LET ran == run_command(<<Word("git"), Word("--version")>>, NoPath,
                           TRUE, TRUE, o)
    IN  IF ran.kind = "return" THEN Return(TRUE)
        ELSE IF ran.error.kind \in FactoryAIErrorKinds THEN Return(FALSE)
        ELSE ran

check_git_installed(o) == check_git_installed_outcome(o) = Return(TRUE)

\* variant: any .git entry counts, a regular file too
is_git_repository_AnyEntry(f, path) ==
    Exists(f, Join(path, <<".git">>))

is_git_repository(f, path) ==
    LET git_dir == Join(path, <<".git">>)
    IN  Exists(f, git_dir) /\ IsDir(f, git_dir)

(***************************************************************************)
(* FactoryAIOrchestrator.run_component (core.py).                          *)
(***************************************************************************)
NoArgs == [none |-> TRUE, items |-> <<>>]

ArgList(items) == [none |-> FALSE, items |-> items]

\* Python truth value of `args`: None and the empty list are false
Truthy(args) == ~args.none /\ args.items # <<>>

Interpreter == Word("python")

check_component_available(cfg, f, component) ==
    is_component_available(cfg, f, component)

\* variant: app.py is probed first
resolve_entry_point_AppFirst(f, component_path) ==
    LET main_script == Join(component_path, <<"app.py">>)
    IN  IF ~Exists(f, main_script)
        THEN Join(component_path, <<"main.py">>)
        ELSE main_script

\* main.py, and app.py when main.py does not exist
resolve_entry_point(f, component_path) ==
    LET main_script == Join(component_path, <<"main.py">>)
    IN  IF ~Exists(f, main_script)
        THEN Join(component_path, <<"app.py">>)
        ELSE main_script

\* variant: the args are appended last first
build_command_Reversed(main_script, args) ==
    LET command == <<Interpreter, main_script>>
        n       == Len(args.items)
    IN  IF Truthy(args)
        THEN command \o [i \in 1..n |-> args.items[n + 1 - i]]
        ELSE command

\* ["python", str(main_script)] extended by args
build_command(main_script, args) ==
    LET command == <<Interpreter, main_script>>
    IN  IF Truthy(args) THEN command \o args.items ELSE command

\* the child is run directly (interactive) or through run_command with
\* check=False; either way the code keeps the return code
launch(command, component_path, interactive, o) ==
    IF interactive
    THEN subprocess_run(command, component_path, o)
    ELSE LET r == run_command(command, component_path, TRUE, FALSE, o)
         IN  IF r.kind = "raise" THEN r ELSE Return(r.value[1])

\* variant: only a positive code counts as a failure
check_returncode_Positive(component, returncode) ==
    IF returncode > 0
    THEN Raise(ComponentError(component,
                   <<"Component exited with code ">> \o IntStr(returncode)))
    ELSE Return(returncode)

check_returncode(component, returncode) ==
    IF returncode # 0
    THEN Raise(ComponentError(component,
                   <<"Component exited with code ">> \o IntStr(returncode)))
    ELSE Return(returncode)

\* variant: every FactoryAIError passes through unwrapped
wrap_run_errors_PassFactoryAIError(component, r) ==
    IF r.kind = "raise" /\ r.error.kind \notin FactoryAIErrorKinds
    THEN Raise(ComponentError(component, Str(r.error)))
    ELSE r

\* except ComponentError: raise / except Exception as e: wrap
wrap_run_errors(component, r) ==
    IF r.kind = "raise" /\ r.error.kind # "ComponentError"
    THEN Raise(ComponentError(component, Str(r.error)))
    ELSE r

\* the try block of run_component
run_entry_point(cfg, f, component, args, interactive, o) ==
    LET component_path == get_component_path(cfg, component)
        main_script    == resolve_entry_point(f, component_path)
    IN  IF ~Exists(f, main_script)
        THEN [outcome |-> wrap_run_errors(component,
                              Raise(ComponentError(component,
                                  <<"No main entry point found at ">>
                                      \o component_path))),
              trace   |-> <<>>]
        ELSE LET command  == build_command(main_script, args)
                 launched == launch(command, component_path, interactive, o)
             IN  [outcome |-> wrap_run_errors(component,
                                  IF launched.kind = "raise" THEN launched
                                  ELSE check_returncode(component,
                                                        launched.value)),
                  trace   |-> <<SpawnEvent(command, component_path, FALSE, o)>>]

\* variant: the enabled flag is looked at before the availability
run_component_EnabledFirst(cfg, f, component, args, interactive, o) ==
    IF component \in DOMAIN cfg.components /\ ~cfg.components[component].enabled
    THEN [outcome |-> Raise(ComponentError(component,
                                <<"Component is not enabled">>)),
          trace   |-> <<>>]
    ELSE IF ~check_component_available(cfg, f, component)
    THEN [outcome |-> Raise(SubmoduleNotFoundError(component)), trace |-> <<>>]
    ELSE run_entry_point(cfg, f, component, args, interactive, o)

\* variant: the enabled flag is not looked at
run_component_IgnoreEnabled(cfg, f, component, args, interactive, o) ==
    IF ~check_component_available(cfg, f, component)
    THEN [outcome |-> Raise(SubmoduleNotFoundError(component)), trace |-> <<>>]
    ELSE run_entry_point(cfg, f, component, args, interactive, o)

run_component(cfg, f, component, args, interactive, o) ==
    IF ~check_component_available(cfg, f, component)
    THEN [outcome |-> Raise(SubmoduleNotFoundError(component)), trace |-> <<>>]
    ELSE IF ~cfg.components[component].enabled
    THEN [outcome |-> Raise(ComponentError(component,
                                <<"Component is not enabled">>)),
          trace   |-> <<>>]
    ELSE run_entry_point(cfg, f, component, args, interactive, o)

(***************************************************************************)
(* FactoryAIOrchestrator.sync_submodules (core.py) and ensure_directory    *)
(* (utils.py).  mk is the operating system's answer to the mkdir, should   *)
(* one be attempted: "ok" or the error it fails with.                      *)
(***************************************************************************)
MkdirAnswers == {"ok", "PermissionError"}

MkdirOutcome(mk) == [type |-> "mkdir", code |-> 0, error |-> mk]

\* variant: whatever exists at the path is taken for a directory
ensure_directory_AnyEntry(f, path, mk) ==
    IF Exists(f, path)
    THEN [outcome |-> Return(NoValue), trace |-> <<>>, fs |-> f]
    ELSE IF mk = "ok"
    THEN [outcome |-> Return(NoValue),
          trace   |-> <<MkdirEvent(path, MkdirOutcome(mk))>>,
          fs      |-> MkdirParents(f, path)]
    ELSE [outcome |-> Raise(FactoryAIError(
                          <<"Failed to create directory ">> \o path
                              \o <<": ">> \o Str(OSError(mk, path)),
                          NoDetails)),
          trace   |-> <<MkdirEvent(path, MkdirOutcome(mk))>>,
          fs      |-> f]

ensure_directory(f, path, mk) ==
    IF Exists(f, path)
    THEN IF ~IsDir(f, path)
         THEN [outcome |-> Raise(FactoryAIError(
                               <<"Path exists but is not a directory: ">>
                                   \o path, NoDetails)),
               trace |-> <<>>, fs |-> f]
         ELSE [outcome |-> Return(NoValue), trace |-> <<>>, fs |-> f]
    ELSE IF mk = "ok"
    THEN [outcome |-> Return(NoValue),
          trace   |-> <<MkdirEvent(path, MkdirOutcome(mk))>>,
          fs      |-> MkdirParents(f, path)]
    ELSE [outcome |-> Raise(FactoryAIError(
                          <<"Failed to create directory ">> \o path
                              \o <<": ">> \o Str(OSError(mk, path)),
                          NoDetails)),
          trace   |-> <<MkdirEvent(path, MkdirOutcome(mk))>>,
          fs      |-> f]

\* variant: --force is put among the options, not at the end
submodule_command_ForceInside(force) ==
    IF force
    THEN <<Word("git"), Word("submodule"), Word("update"), Word("--force"),
           Word("--init"), Word("--recursive")>>
    ELSE <<Word("git"), Word("submodule"), Word("update"),
           Word("--init"), Word("--recursive")>>

submodule_command(force) ==
    LET command == <<Word("git"), Word("submodule"), Word("update"),
                     Word("--init"), Word("--recursive")>>
    IN  IF force THEN Append(command, Word("--force")) ELSE command

\* except FactoryAIError: raise / except Exception as e: wrap
wrap_sync_errors(r) ==
    IF r.kind = "raise" /\ r.error.kind \notin FactoryAIErrorKinds
    THEN Raise(FactoryAIError(<<"Failed to sync submodules: ">>
                                  \o Str(r.error), NoDetails))
    ELSE r

GitVersionEvent(probe) ==
    SpawnEvent(<<Word("git"), Word("--version")>>, NoPath, TRUE, probe)

\* the try block of sync_submodules
sync_directory_and_update(cfg, f, force, mk, o) ==
    LET ensured == ensure_directory(f, Parent(cfg.submodules_dir), mk)
    IN  IF ensured.outcome.kind = "raise"
        THEN [outcome |-> wrap_sync_errors(ensured.outcome),
              trace   |-> ensured.trace, fs |-> ensured.fs]
        ELSE LET command == submodule_command(force)
                 ran     == run_command(command, cfg.root_dir, TRUE, TRUE, o)
             IN  [outcome |-> wrap_sync_errors(
                                  IF ran.kind = "raise" THEN ran
                                  ELSE Return(NoValue)),
                  trace   |-> Append(ensured.trace,
                                     SpawnEvent(command, cfg.root_dir, TRUE, o)),
                  fs      |-> ensured.fs]

\* variant: the directory is ensured before the answer of the git probe is
\* acted on
sync_submodules_EnsureFirst(cfg, f, force, probe, mk, o) ==
    LET ensured == ensure_directory(f, Parent(cfg.submodules_dir), mk)
    IN  IF ~check_git_installed(probe)
        THEN [outcome |-> Raise(FactoryAIError(
                              <<"Git is not installed">>,
                              <<"Please install Git to use FactoryAI.">>)),
              trace   |-> <<GitVersionEvent(probe)>> \o ensured.trace,
              fs      |-> ensured.fs]
        ELSE IF ~is_git_repository(f, cfg.root_dir)
        THEN [outcome |-> Raise(FactoryAIError(
                              <<"Not a git repository: ">> \o cfg.root_dir,
                              <<"Please clone the FactoryAI repository properly.">>)),
              trace   |-> <<GitVersionEvent(probe)>>, fs |-> f]
        ELSE LET r == sync_directory_and_update(cfg, f, force, mk, o)
             IN  [outcome |-> r.outcome,
                  trace   |-> <<GitVersionEvent(probe)>> \o r.trace,
                  fs      |-> r.fs]

sync_submodules(cfg, f, force, probe, mk, o) ==
    IF ~check_git_installed(probe)
    THEN [outcome |-> Raise(FactoryAIError(
                          <<"Git is not installed">>,
                          <<"Please install Git to use FactoryAI.">>)),
          trace   |-> <<GitVersionEvent(probe)>>, fs |-> f]
    ELSE IF ~is_git_repository(f, cfg.root_dir)
    THEN [outcome |-> Raise(FactoryAIError(
                          <<"Not a git repository: ">> \o cfg.root_dir,
                          <<"Please clone the FactoryAI repository properly.">>)),
          trace   |-> <<GitVersionEvent(probe)>>, fs |-> f]
    ELSE LET r == sync_directory_and_update(cfg, f, force, mk, o)
         IN  [outcome |-> r.outcome,
              trace   |-> <<GitVersionEvent(probe)>> \o r.trace,
              fs      |-> r.fs]

(***************************************************************************)
(* The read operations: FactoryAIConfig.get_component_path as a caller     *)
(* sees it, and get_component_status, validate_installation and info of    *)
(* FactoryAIOrchestrator.                                                  *)
(***************************************************************************)
KeyError(key) == [kind |-> "KeyError", message |-> <<key>>, details |-> NoDetails]

\* variant: the membership test is missing and the lookup fails by itself
get_component_path_checked_NoTest(cfg, component_name) ==
    IF component_name \notin DOMAIN cfg.components
    THEN Raise(KeyError(component_name))
    ELSE Return(get_component_path(cfg, component_name))

\* get_component_path with its test for an id that is not in the mapping
get_component_path_checked(cfg, component_name) ==
    IF component_name \notin DOMAIN cfg.components
    THEN Raise(ConfigurationError(
             <<"Component '", component_name, "' not found in configuration.">>))
    ELSE Return(get_component_path(cfg, component_name))

\* variant: the status is the one of the session's first moment
get_component_status_Stale(cfg, f) ==
    [component_name \in DOMAIN cfg.components |->
        LET component_config == FactoryAIConfig.components[component_name]
            component_path   == get_component_path(cfg, component_name)
        IN  [name      |-> component_config.name,
             enabled   |-> component_config.enabled,
             available |-> Exists(EmptyRoot, component_path),
             path      |-> PathStr(component_path),
             url       |-> component_config.url]]

\* variant: components that are not enabled are left out
get_component_status_EnabledOnly(cfg, f) ==
    [component_name \in {id \in DOMAIN cfg.components :
                            cfg.components[id].enabled} |->
        LET component_config == cfg.components[component_name]
            component_path   == get_component_path(cfg, component_name)
        IN  [name      |-> component_config.name,
             enabled   |-> component_config.enabled,
             available |-> Exists(f, component_path),
             path      |-> PathStr(component_path),
             url       |-> component_config.url]]

get_component_status(cfg, f) ==
    [component_name \in DOMAIN cfg.components |->
        LET component_config == cfg.components[component_name]
            component_path   == get_component_path(cfg, component_name)
        IN  [name      |-> component_config.name,
             enabled   |-> component_config.enabled,
             available |-> Exists(f, component_path),
             path      |-> PathStr(component_path),
             url       |-> component_config.url]]

GitMissingText == <<"Git is not installed">>

NotARepositoryText == <<"Not a git repository">>

NoComponentsText ==
    <<"No components are initialized. Run 'factoryai sync' or 'make sync'.">>

\* the ids of a status map that are both available and enabled
available_components(component_status) ==
    {name \in DOMAIN component_status :
        component_status[name].available /\ component_status[name].enabled}

\* variant: the component check is skipped once an earlier check has failed
validate_installation_ShortCircuit(cfg, f, probe) ==
    LET git_installed    == check_git_installed(probe)
        is_git_repo      == is_git_repository(f, cfg.root_dir)
        component_status == get_component_status(cfg, f)
        initialized      == /\ git_installed
                            /\ is_git_repo
                            /\ available_components(component_status) # {}
    IN  [valid                  |-> git_installed /\ is_git_repo,
         git_installed          |-> git_installed,
         is_git_repo            |-> is_git_repo,
         submodules_initialized |-> initialized,
         components             |-> component_status,
         errors |-> (IF ~git_installed THEN <<GitMissingText>> ELSE <<>>)
                    \o (IF ~is_git_repo THEN <<NotARepositoryText>> ELSE <<>>)
                    \o (IF git_installed /\ is_git_repo /\ ~initialized
                        THEN <<NoComponentsText>> ELSE <<>>)]

\* the report of validate_installation; valid is cleared by the first two
\* checks only
validate_installation(cfg, f, probe) ==
    LET git_installed    == check_git_installed(probe)
        is_git_repo      == is_git_repository(f, cfg.root_dir)
        component_status == get_component_status(cfg, f)
        initialized      == available_components(component_status) # {}
    IN  [valid                  |-> git_installed /\ is_git_repo,
         git_installed          |-> git_installed,
         is_git_repo            |-> is_git_repo,
         submodules_initialized |-> initialized,
         components             |-> component_status,
         errors |-> (IF ~git_installed THEN <<GitMissingText>> ELSE <<>>)
                    \o (IF ~is_git_repo THEN <<NotARepositoryText>> ELSE <<>>)
                    \o (IF ~initialized THEN <<NoComponentsText>> ELSE <<>>)]

Version == "0.1.0"

info(cfg, f) ==
    [version        |-> Version,
     root_dir       |-> PathStr(cfg.root_dir),
     submodules_dir |-> PathStr(cfg.submodules_dir),
     log_level      |-> cfg.log_level,
     components     |-> get_component_status(cfg, f)]

(***************************************************************************)
(* The command handlers of cli.py: the exit code they make of what the     *)
(* orchestrator returned or raised.  An error that is not a FactoryAIError *)
(* is not handled and leaves the handler.                                  *)
(***************************************************************************)
\* the short names of the run subcommand
component_map ==
    [short \in {"app", "feature", "debug"} |->
        CASE short = "app"     -> "factory-app-ai"
          [] short = "feature" -> "factory-feature"
          [] short = "debug"   -> "factory-debug"]

cmd_sync(r) ==
    IF r.kind = "return" THEN Return(0)
    ELSE IF r.error.kind \in FactoryAIErrorKinds THEN Return(1)
    ELSE r

\* variant: no handler, the error leaves cmd_run
cmd_run_NoHandler(r) == r

cmd_run(r) ==
    IF r.kind = "return" THEN Return(r.value)
    ELSE IF r.error.kind \in FactoryAIErrorKinds THEN Return(1)
    ELSE r

\* variant: the exit code follows the valid flag of the report
cmd_validate_ByValidFlag(results) ==
    IF ~results.valid THEN Return(1) ELSE Return(0)

cmd_validate(results) ==
    IF results.errors # <<>> THEN Return(1) ELSE Return(0)

(***************************************************************************)
(* The dictionary form of a configuration.  A dictionary is a function on  *)
(* its keys, a key that is absent is outside its domain, and JSON null is  *)
(* the empty text.                                                         *)
(***************************************************************************)
JsonNull == <<>>

NoData == <<>>

TypeError(message) ==
    [kind |-> "TypeError", message |-> message, details |-> NoDetails]

SubmoduleFields == {"name", "path", "url", "enabled"}

RequiredSubmoduleFields == {"name", "path", "url"}

\* SubmoduleConfig(**comp_data): every key must be a field, the three
\* fields without a default must be present, enabled defaults to True
SubmoduleConfig_kwargs(comp_data) ==
    IF ~(DOMAIN comp_data \subseteq SubmoduleFields)
    THEN Raise(TypeError(<<"got an unexpected keyword argument">>))
    ELSE IF ~(RequiredSubmoduleFields \subseteq DOMAIN comp_data)
    THEN Raise(TypeError(<<"missing required positional argument">>))
    ELSE Return(SubmoduleConfig(comp_data.name, comp_data.path,
                                comp_data.url,
                                IF "enabled" \in DOMAIN comp_data
                                THEN comp_data.enabled
                                ELSE TRUE))

to_dict(cfg) ==
    [root_dir       |-> PathStr(cfg.root_dir),
     submodules_dir |-> PathStr(cfg.submodules_dir),
     log_level      |-> cfg.log_level,
     log_file       |-> IF cfg.log_file # NoPath
                        THEN PathStr(cfg.log_file)
                        ELSE JsonNull,
     components     |-> [name \in DOMAIN cfg.components |->
                            [name    |-> cfg.components[name].name,
                             path    |-> cfg.components[name].path,
                             url     |-> cfg.components[name].url,
                             enabled |-> cfg.components[name].enabled]]]

\* data.get(key, default)
DictGet(data, key, default) ==
    IF key \in DOMAIN data THEN data[key] ELSE default

\* the component entries are built first, then the constructor's arguments
\* are read in order, root_dir by subscript and the others with a default
from_dict(data) ==
    LET entries == IF "components" \in DOMAIN data
                   THEN data.components
                   ELSE NoData
        built   == [name \in DOMAIN entries |->
                       SubmoduleConfig_kwargs(entries[name])]
        failed  == {name \in DOMAIN built : built[name].kind = "raise"}
    IN  IF failed # {}
        THEN Raise(built[CHOOSE name \in failed : TRUE].error)
        ELSE IF "root_dir" \notin DOMAIN data
        THEN Raise(KeyError("root_dir"))
        ELSE Return(post_init(
               ParsePath(data.root_dir),
               ParsePath(DictGet(data, "submodules_dir",
                                 PathStr(DefaultSubmodulesDir))),
               DictGet(data, "log_level", "INFO"),
               IF DictGet(data, "log_file", JsonNull) # JsonNull
               THEN ParsePath(data.log_file)
               ELSE NoPath,
               [name \in DOMAIN built |-> built[name].value]))

(***************************************************************************)
(* save and load.  The file is outside the tree of the components: what    *)
(* opening it comes to is the environment's answer, and the trace keeps    *)
(* what was read or written.                                               *)
(***************************************************************************)
ConfigPath == <<"/", "tmp", "config.json">>

\* opening a file for reading, and decoding its text, can fail in these ways
ReadFailures ==
    {"FileNotFoundError", "PermissionError", "UnicodeDecodeError",
     "JSONDecodeError"}

\* opening a file for writing can fail in these ways
WriteFailures == {"FileNotFoundError", "PermissionError"}

FileEvent(ev, path, state, data) ==
    [ev |-> ev, argv |-> <<>>, path |-> path, check |-> FALSE,
     result |-> [state |-> state, data |-> data]]

\* the error open() or json.load() raises
ReadError(path, state) ==
    IF state \in {"FileNotFoundError", "PermissionError"}
    THEN OSError(state, PathStr(path))
    ELSE [kind |-> state, message |-> <<"invalid content">>,
          details |-> NoDetails]

save(cfg, path, state) ==
    IF state = "ok"
    THEN [outcome |-> Return(NoValue),
          trace   |-> <<FileEvent("write", path, state, to_dict(cfg))>>]
    ELSE [outcome |-> Raise(ConfigurationError(
                          <<"Failed to save configuration: ">>
                              \o Str(OSError(state, PathStr(path))))),
          trace   |-> <<FileEvent("write", path, state, NoData)>>]

\* variant: the handler for every other Exception is missing
load_TwoHandlers(path, state, data) ==
    IF state = "FileNotFoundError"
    THEN Raise(ConfigurationError(<<"Configuration file not found: ">>
                                      \o PathStr(path)))
    ELSE IF state = "JSONDecodeError"
    THEN Raise(ConfigurationError(<<"Invalid JSON in configuration: ">>
                                      \o Str(ReadError(path, state))))
    ELSE IF state # "ok"
    THEN Raise(ReadError(path, state))
    ELSE from_dict(data)

\* state is what open and json.load come to, data the record read when
\* they succeed
load(path, state, data) ==
    IF state = "FileNotFoundError"
    THEN Raise(ConfigurationError(<<"Configuration file not found: ">>
                                      \o PathStr(path)))
    ELSE IF state = "JSONDecodeError"
    THEN Raise(ConfigurationError(<<"Invalid JSON in configuration: ">>
                                      \o Str(ReadError(path, state))))
    ELSE IF state # "ok"
    THEN Raise(ConfigurationError(<<"Failed to load configuration: ">>
                                      \o Str(ReadError(path, state))))
    ELSE LET read == from_dict(data)
         IN  IF read.kind = "raise"
             THEN Raise(ConfigurationError(
                      <<"Failed to load configuration: ">>
                          \o Str(read.error)))
             ELSE read

(***************************************************************************)
(* The string helpers of utils.py.  A string is the sequence of its        *)
(* characters.                                                             *)
(***************************************************************************)
ValidationError(message) ==
    [kind |-> "ValidationError", message |-> message, details |-> NoDetails]

\* text[:stop]; a negative stop counts from the end
Slice(text, stop) ==
    IF stop >= 0
    THEN SubSeq(text, 1, IF stop < Len(text) THEN stop ELSE Len(text))
    ELSE SubSeq(text, 1, IF Len(text) + stop > 0 THEN Len(text) + stop ELSE 0)

truncate_string(text, max_length, suffix) ==
    IF Len(text) <= max_length
    THEN text
    ELSE Slice(text, max_length - Len(suffix)) \o suffix

\* text.split("."): the pieces between the dots, empty ones included
RECURSIVE Split(_)
Split(text) ==
    IF text = <<>> THEN << <<>> >>
    ELSE LET rest == Split(Tail(text))
         IN  IF Head(text) = "."
             THEN << <<>> >> \o rest
             ELSE << <<Head(text)>> \o Head(rest) >> \o Tail(rest)

DecimalDigits == {Digit(d) : d \in 0..9}

\* the pieces int() accepts: decimal digits after an optional sign
IsDecimal(piece) ==
    LET digits == IF piece # <<>> /\ Head(piece) \in {"-", "+"}
                  THEN Tail(piece) ELSE piece
    IN  /\ digits # <<>>
        /\ \A i \in 1..Len(digits) : digits[i] \in DecimalDigits

RECURSIVE DigitsValue(_)
DigitsValue(digits) ==
    LET last == CHOOSE d \in 0..9 : Digit(d) = digits[Len(digits)]
    IN  IF Len(digits) = 1 THEN last
        ELSE 10 * DigitsValue(SubSeq(digits, 1, Len(digits) - 1)) + last

\* int(piece) for a piece it accepts
IntOf(piece) ==
    IF Head(piece) = "-" THEN 0 - DigitsValue(Tail(piece))
    ELSE IF Head(piece) = "+" THEN DigitsValue(Tail(piece))
    ELSE DigitsValue(piece)

\* int() raises ValueError for a piece it does not accept, and then
\* parse_version raises ValidationError
parse_version(version_string) ==
    LET pieces == Split(version_string)
    IN  IF \A i \in 1..Len(pieces) : IsDecimal(pieces[i])
        THEN Return([i \in 1..Len(pieces) |-> IntOf(pieces[i])])
        ELSE Raise(ValidationError(<<"Invalid version string: ">>
                                       \o version_string))

\* the order of Python tuples: decided at the first place where they
\* differ, and by the lengths when one is a prefix of the other
TupleLess(t1, t2) ==
    LET n       == IF Len(t1) < Len(t2) THEN Len(t1) ELSE Len(t2)
        differs == {i \in 1..n : t1[i] # t2[i]}
    IN  IF differs = {}
        THEN Len(t1) < Len(t2)
        ELSE LET first == CHOOSE i \in differs : \A j \in differs : i <= j
             IN  t1[first] < t2[first]

\* variant: the shorter tuple is filled up with zeros before the comparison
compare_versions_ZeroPadded(version1, version2) ==
    LET v1 == parse_version(version1)
        v2 == parse_version(version2)
    IN  IF v1.kind = "raise" THEN v1
        ELSE IF v2.kind = "raise" THEN v2
        ELSE LET n  == IF Len(v1.value) < Len(v2.value)
                       THEN Len(v2.value) ELSE Len(v1.value)
                 p1 == [i \in 1..n |-> IF i <= Len(v1.value)
                                       THEN v1.value[i] ELSE 0]
                 p2 == [i \in 1..n |-> IF i <= Len(v2.value)
                                       THEN v2.value[i] ELSE 0]
             IN  IF TupleLess(p1, p2) THEN Return(-1)
                 ELSE IF TupleLess(p2, p1) THEN Return(1)
                 ELSE Return(0)

compare_versions(version1, version2) ==
    LET v1 == parse_version(version1)
        v2 == parse_version(version2)
    IN  IF v1.kind = "raise" THEN v1
        ELSE IF v2.kind = "raise" THEN v2
        ELSE IF TupleLess(v1.value, v2.value) THEN Return(-1)
        ELSE IF TupleLess(v2.value, v1.value) THEN Return(1)
        ELSE Return(0)

(***************************************************************************)
(* The session: one configuration, one filesystem, one caller.             *)
(***************************************************************************)
NoCall ==
    [op |-> "none", component |-> "", args |-> NoArgs,
     interactive |-> FALSE, force |-> FALSE, data |-> NoData]

NoOutcome == [kind |-> "none", value |-> NoValue, error |-> NoError]

\* no call has reported an availability to the caller yet
NothingReported == [made |-> FALSE, available |-> {}]

\* ids a caller may pass: those of the mapping and one that is not in it
UnknownId == "factory-unknown"

CallIds == DOMAIN DefaultComponents \cup {UnknownId}

\* extra arguments a caller may pass: None, none, and two orders of two
ArgSamples ==
    {NoArgs, ArgList(<<>>), ArgList(<<Word("--port"), Word("80")>>),
     ArgList(<<Word("80"), Word("--port")>>)}

Init ==
    /\ fs = EmptyRoot
    /\ config = FactoryAIConfig
    /\ call = NoCall
    /\ outcome = NoOutcome
    /\ trace = <<>>
    /\ reported = NothingReported

Idle == call = NoCall

\* the environment between two calls: directories and files appear and
\* disappear under the root directory
EnvMkdir(p) ==
    /\ Idle
    /\ ~Exists(fs, p)
    /\ \A q \in Paths : IsPrefix(q, p) => fs[q] # "file"
    /\ Cardinality(ComponentsOnDisk(MkdirParents(fs, p))) <= MaxComponentDirs
    /\ fs' = MkdirParents(fs, p)
    /\ UNCHANGED <<config, call, outcome, trace, reported>>

EnvWriteFile(p) ==
    /\ Idle
    /\ ~Exists(fs, p)
    /\ IsDir(fs, Parent(p))
    /\ Cardinality(ComponentsOnDisk([fs EXCEPT ![p] = "file"]))
          <= MaxComponentDirs
    /\ fs' = [fs EXCEPT ![p] = "file"]
    /\ UNCHANGED <<config, call, outcome, trace, reported>>

EnvRemove(p) ==
    /\ Idle
    /\ Exists(fs, p)
    /\ fs' = RemoveTree(fs, p)
    /\ UNCHANGED <<config, call, outcome, trace, reported>>

\* config.components[id].enabled = b, done by the caller between calls
SetEnabled(id, b) ==
    /\ Idle
    /\ config.components[id].enabled # b
    /\ LET cfg == [config EXCEPT !.components[id].enabled = b]
       IN  /\ Cardinality(Toggled(cfg)) <= MaxToggles
           /\ config' = cfg
    /\ UNCHANGED <<fs, call, outcome, trace, reported>>

\* variant: a component whose run fails is switched off in the configuration
RunComponent_DisablesFailed ==
    /\ Idle
    /\ \E component \in CallIds, args \in ArgSamples,
          interactive \in BOOLEAN, o \in SpawnOutcomes :
          LET r == run_component(config, fs, component, args, interactive, o)
          IN  /\ call' = [NoCall EXCEPT !.op = "run",
                                        !.component = component,
                                        !.args = args,
                                        !.interactive = interactive]
              /\ outcome' = r.outcome
              /\ trace' = r.trace
              /\ config' =
                    IF r.outcome.kind = "raise"
                          /\ component \in DOMAIN config.components
                    THEN [config EXCEPT
                             !.components[component].enabled = FALSE]
                    ELSE config
    /\ UNCHANGED <<fs, reported>>

RunComponent ==
    /\ Idle
    /\ \E component \in CallIds, args \in ArgSamples,
          interactive \in BOOLEAN, o \in SpawnOutcomes :
          LET r == run_component(config, fs, component, args, interactive, o)
          IN  /\ call' = [NoCall EXCEPT !.op = "run",
                                        !.component = component,
                                        !.args = args,
                                        !.interactive = interactive]
              /\ outcome' = r.outcome
              /\ trace' = r.trace
    /\ UNCHANGED <<fs, config, reported>>

SyncSubmodules ==
    /\ Idle
    /\ \E force \in BOOLEAN, probe \in SpawnOutcomes,
          mk \in MkdirAnswers, o \in SpawnOutcomes :
          LET r == sync_submodules(config, fs, force, probe, mk, o)
          IN  /\ call' = [NoCall EXCEPT !.op = "sync", !.force = force]
              /\ outcome' = r.outcome
              /\ trace' = r.trace
              /\ fs' = r.fs
    /\ UNCHANGED <<config, reported>>

GetComponentStatus ==
    /\ Idle
    /\ call' = [NoCall EXCEPT !.op = "status"]
    /\ outcome' = Return(get_component_status(config, fs))
    /\ trace' = <<>>
    /\ UNCHANGED <<fs, config, reported>>

ValidateInstallation ==
    /\ Idle
    /\ \E probe \in SpawnOutcomes :
          /\ call' = [NoCall EXCEPT !.op = "validate"]
          /\ outcome' = Return(validate_installation(config, fs, probe))
          /\ trace' = <<GitVersionEvent(probe)>>
    /\ UNCHANGED <<fs, config, reported>>

Info ==
    /\ Idle
    /\ call' = [NoCall EXCEPT !.op = "info"]
    /\ outcome' = Return(info(config, fs))
    /\ trace' = <<>>
    /\ UNCHANGED <<fs, config, reported>>

\* check_component_available / config.is_component_available
CheckAvailable ==
    /\ Idle
    /\ \E component \in CallIds :
          /\ call' = [NoCall EXCEPT !.op = "available",
                                    !.component = component]
          /\ outcome' = Return(check_component_available(config, fs, component))
    /\ trace' = <<>>
    /\ UNCHANGED <<fs, config, reported>>

GetComponentPath ==
    /\ Idle
    /\ \E component \in CallIds :
          /\ call' = [NoCall EXCEPT !.op = "path", !.component = component]
          /\ outcome' = get_component_path_checked(config, component)
    /\ trace' = <<>>
    /\ UNCHANGED <<fs, config, reported>>

\* the caller has taken the outcome; the session is ready for the next call
Done ==
    /\ ~Idle
    /\ call' = NoCall
    /\ outcome' = NoOutcome
    /\ trace' = <<>>
    /\ UNCHANGED <<fs, config, reported>>

Next ==
    \/ \E p \in DirPaths \ {RootDir} : EnvMkdir(p)
    \/ \E p \in Paths \ {RootDir} : EnvWriteFile(p)
    \/ \E p \in Paths \ {RootDir} : EnvRemove(p)
    \/ \E id \in DOMAIN DefaultComponents, b \in BOOLEAN : SetEnabled(id, b)
    \/ RunComponent
    \/ SyncSubmodules
    \/ GetComponentStatus
    \/ ValidateInstallation
    \/ Info
    \/ CheckAvailable
    \/ GetComponentPath
    \/ Done

Spec == Init /\ [][Next]_vars

(***************************************************************************)
(* A session of read operations whose caller keeps, from one call to the   *)
(* next, the set of components the last call reported available.           *)
(***************************************************************************)
ReadOps == {"status", "validate", "info", "available"}

\* the ids a read call's outcome reports available
Observed(c, o) ==
    CASE c.op = "status" ->
            {id \in DOMAIN o.value : o.value[id].available}
      [] c.op \in {"validate", "info"} ->
            {id \in DOMAIN o.value.components :
                o.value.components[id].available}
      [] OTHER -> IF o.value = TRUE THEN {c.component} ELSE {}

DoneObserved ==
    /\ call.op \in ReadOps
    /\ reported' = [made |-> TRUE, available |-> Observed(call, outcome)]
    /\ call' = NoCall
    /\ outcome' = NoOutcome
    /\ trace' = <<>>
    /\ UNCHANGED <<fs, config>>

NextLive ==
    \/ \E p \in DirPaths \ {RootDir} : EnvMkdir(p)
    \/ \E p \in Paths \ {RootDir} : EnvWriteFile(p)
    \/ \E p \in Paths \ {RootDir} : EnvRemove(p)
    \/ \E id \in DOMAIN DefaultComponents, b \in BOOLEAN : SetEnabled(id, b)
    \/ GetComponentStatus
    \/ ValidateInstallation
    \/ Info
    \/ CheckAvailable
    \/ DoneObserved

SpecLive == Init /\ [][NextLive]_vars

(***************************************************************************)
(* A session on the configuration alone: it is constructed, written to a   *)
(* dictionary and read back from one, and the caller changes its flags and *)
(* its mapping in between.                                                 *)
(***************************************************************************)
RelativeRoot == <<"proj">>

AbsoluteSubmodulesDir == <<"/", "opt", "platfom">>

LogFile == <<"/", "test", "log.txt">>

\* a mapping with one component that is not a default one
TestComponents ==
    [id \in {"test-component"} |->
        SubmoduleConfig("Test-Component", <<"src", "test">>,
                        "https://github.com/test/test", TRUE)]

\* the constructor's arguments, defaults filled in
KwargSamples ==
    [root_dir       : {RootDir, RelativeRoot},
     submodules_dir : {DefaultSubmodulesDir, AbsoluteSubmodulesDir},
     log_level      : {"INFO", "DEBUG"},
     log_file       : {NoPath, LogFile},
     supplied       : BOOLEAN]

Supplied(kwargs) == IF kwargs.supplied THEN TestComponents ELSE NoComponents

Constructed(kwargs) ==
    post_init(kwargs.root_dir, kwargs.submodules_dir, kwargs.log_level,
              kwargs.log_file, Supplied(kwargs))

Without(data, key) == [k \in DOMAIN data \ {key} |-> data[k]]

\* one component entry, as written, with one key too few or one too many
EntrySamples ==
    LET entry == to_dict(Constructed([root_dir |-> RootDir,
                     submodules_dir |-> DefaultSubmodulesDir,
                     log_level |-> "INFO", log_file |-> NoPath,
                     supplied |-> TRUE])).components["test-component"]
    IN  {Without(entry, key) : key \in DOMAIN entry}
          \cup {entry @@ [branch |-> "main"]}

\* dictionaries handed to from_dict: those to_dict writes, the same with one
\* key left out, and the same with one component entry out of shape
DictSamples ==
    LET written == {to_dict(Constructed(kwargs)) :
                       kwargs \in {k \in KwargSamples : k.log_level = "INFO"}}
    IN  written
          \cup UNION {{Without(data, key) : key \in DOMAIN data} :
                          data \in written}
          \cup {[data EXCEPT !.components =
                    [id \in {"test-component"} |-> entry]] :
                   data \in written, entry \in EntrySamples}

Construct ==
    /\ Idle
    /\ \E kwargs \in KwargSamples :
          /\ call' = [NoCall EXCEPT !.op = "construct", !.data = kwargs]
          /\ config' = Constructed(kwargs)
          /\ outcome' = Return(Constructed(kwargs))
    /\ trace' = <<>>
    /\ UNCHANGED <<fs, reported>>

ToDict ==
    /\ Idle
    /\ call' = [NoCall EXCEPT !.op = "to_dict"]
    /\ outcome' = Return(to_dict(config))
    /\ trace' = <<>>
    /\ UNCHANGED <<fs, config, reported>>

FromDict ==
    /\ Idle
    /\ \E data \in DictSamples :
          /\ call' = [NoCall EXCEPT !.op = "from_dict", !.data = data]
          /\ outcome' = from_dict(data)
    /\ trace' = <<>>
    /\ UNCHANGED <<fs, config, reported>>

\* from_dict(config.to_dict())
RoundTrip ==
    /\ Idle
    /\ call' = [NoCall EXCEPT !.op = "round_trip", !.data = to_dict(config)]
    /\ outcome' = from_dict(to_dict(config))
    /\ trace' = <<>>
    /\ UNCHANGED <<fs, config, reported>>

\* config.components = {}, done by the caller between calls
ClearComponents ==
    /\ Idle
    /\ DOMAIN config.components # {}
    /\ config' = [config EXCEPT !.components = NoComponents]
    /\ UNCHANGED <<fs, call, outcome, trace, reported>>

Save ==
    /\ Idle
    /\ \E state \in {"ok"} \cup WriteFailures :
          LET r == save(config, ConfigPath, state)
          IN  /\ call' = [NoCall EXCEPT !.op = "save"]
              /\ outcome' = r.outcome
              /\ trace' = r.trace
    /\ UNCHANGED <<fs, config, reported>>

Load ==
    /\ Idle
    /\ \E state \in {"ok"} \cup ReadFailures, data \in DictSamples :
          LET read == IF state = "ok" THEN data ELSE NoData
          IN  /\ call' = [NoCall EXCEPT !.op = "load"]
              /\ outcome' = load(ConfigPath, state, read)
              /\ trace' = <<FileEvent("read", ConfigPath, state, read)>>
    /\ UNCHANGED <<fs, config, reported>>

NextConfig ==
    \/ Construct
    \/ \E id \in DOMAIN config.components, b \in BOOLEAN : SetEnabled(id, b)
    \/ ClearComponents
    \/ ToDict
    \/ FromDict
    \/ RoundTrip
    \/ Save
    \/ Load
    \/ Done

SpecConfig == Init /\ [][NextConfig]_vars

(***************************************************************************)
(* A session on the helpers of utils.py alone: a command is run, git is    *)
(* probed, two version strings are compared, a string is truncated.        *)
(***************************************************************************)
MaxParts == 3

MaxTextLen == 4

\* commands a caller may run
CommandSamples ==
    {<<Word("echo"), Word("hello")>>, <<Word("false")>>,
     <<Word("nonexistent-command-xyz")>>}

\* the parts of a version string: numerals, one with a leading zero, and
\* the empty part
VersionParts == {<<>>, <<"0">>, <<"1">>, <<"0", "1">>}

RECURSIVE JoinDots(_)
JoinDots(parts) ==
    IF Len(parts) = 1 THEN Head(parts)
    ELSE Head(parts) \o <<".">> \o JoinDots(Tail(parts))

VersionSamples ==
    {JoinDots(parts) :
        parts \in UNION {[1..n -> VersionParts] : n \in 1..MaxParts}}

TextSamples == UNION {[1..n -> {"a", "b"}] : n \in 0..MaxTextLen}

SuffixSamples == {<<>>, <<">", ">">>, <<".", ".", ".">>}

RunCommand ==
    /\ Idle
    /\ \E command \in CommandSamples, cwd \in {NoPath, RootDir},
          capture_output \in BOOLEAN, check \in BOOLEAN,
          o \in SpawnOutcomes :
          /\ call' = [NoCall EXCEPT
                         !.op = "run_command",
                         !.data = [command        |-> command,
                                   cwd            |-> cwd,
                                   capture_output |-> capture_output,
                                   check          |-> check]]
          /\ outcome' = run_command(command, cwd, capture_output, check, o)
          /\ trace' = <<SpawnEvent(command, cwd, check, o)>>
    /\ UNCHANGED <<fs, config, reported>>

CheckGitInstalled ==
    /\ Idle
    /\ \E probe \in SpawnOutcomes :
          /\ call' = [NoCall EXCEPT !.op = "check_git_installed"]
          /\ outcome' = check_git_installed_outcome(probe)
          /\ trace' = <<GitVersionEvent(probe)>>
    /\ UNCHANGED <<fs, config, reported>>

CompareVersions ==
    /\ Idle
    /\ \E version1 \in VersionSamples, version2 \in VersionSamples :
          /\ call' = [NoCall EXCEPT
                         !.op = "compare_versions",
                         !.data = [version1 |-> version1,
                                   version2 |-> version2]]
          /\ outcome' = compare_versions(version1, version2)
    /\ trace' = <<>>
    /\ UNCHANGED <<fs, config, reported>>

TruncateString ==
    /\ Idle
    /\ \E text \in TextSamples, max_length \in 0..(MaxTextLen + 1),
          suffix \in SuffixSamples :
          /\ call' = [NoCall EXCEPT
                         !.op = "truncate_string",
                         !.data = [text       |-> text,
                                   max_length |-> max_length,
                                   suffix     |-> suffix]]
          /\ outcome' = Return(truncate_string(text, max_length, suffix))
    /\ trace' = <<>>
    /\ UNCHANGED <<fs, config, reported>>

NextUtils ==
    \/ RunCommand
    \/ CheckGitInstalled
    \/ CompareVersions
    \/ TruncateString
    \/ Done

SpecUtils == Init /\ [][NextUtils]_vars

(***************************************************************************)
(* A session at the command line: the handlers of sync, run and validate   *)
(* are called on the session's configuration and filesystem.               *)
(***************************************************************************)
\* args.args of the run subcommand: the remainder of the command line
RemainderSamples == {<<>>, <<Word("--port"), Word("80")>>}

CmdSync ==
    /\ Idle
    /\ \E force \in BOOLEAN, probe \in SpawnOutcomes,
          mk \in MkdirAnswers, o \in SpawnOutcomes :
          LET r == sync_submodules(config, fs, force, probe, mk, o)
          IN  /\ call' = [NoCall EXCEPT !.op = "cmd_sync", !.force = force,
                                        !.data = [result |-> r.outcome]]
              /\ outcome' = cmd_sync(r.outcome)
              /\ trace' = r.trace
              /\ fs' = r.fs
    /\ UNCHANGED <<config, reported>>

CmdRun ==
    /\ Idle
    /\ \E short \in DOMAIN component_map, remainder \in RemainderSamples,
          non_interactive \in BOOLEAN, o \in SpawnOutcomes :
          LET component == component_map[short]
              args      == IF remainder # <<>>
                           THEN ArgList(remainder) ELSE NoArgs
              r == run_component(config, fs, component, args,
                                 ~non_interactive, o)
          IN  /\ call' = [NoCall EXCEPT !.op = "cmd_run",
                                        !.component = component,
                                        !.args = args,
                                        !.interactive = ~non_interactive,
                                        !.data = [result |-> r.outcome]]
              /\ outcome' = cmd_run(r.outcome)
              /\ trace' = r.trace
    /\ UNCHANGED <<fs, config, reported>>

CmdValidate ==
    /\ Idle
    /\ \E probe \in SpawnOutcomes :
          /\ call' = [NoCall EXCEPT
                         !.op = "cmd_validate",
                         !.data = [result |-> Return(validate_installation(
                                                  config, fs, probe))]]
          /\ outcome' = cmd_validate(validate_installation(config, fs, probe))
          /\ trace' = <<GitVersionEvent(probe)>>
    /\ UNCHANGED <<fs, config, reported>>

NextCli ==
    \/ \E p \in DirPaths \ {RootDir} : EnvMkdir(p)
    \/ \E p \in Paths \ {RootDir} : EnvWriteFile(p)
    \/ \E p \in Paths \ {RootDir} : EnvRemove(p)
    \/ \E id \in DOMAIN DefaultComponents, b \in BOOLEAN : SetEnabled(id, b)
    \/ CmdSync
    \/ CmdRun
    \/ CmdValidate
    \/ Done

SpecCli == Init /\ [][NextCli]_vars

TypeOK ==
    /\ fs \in [Paths -> Kinds]
    /\ \A p \in Paths \ {RootDir} : Exists(fs, p) => IsDir(fs, Parent(p))
    /\ call.op \in {"none", "run", "sync", "status", "validate", "info",
                    "available", "path", "construct", "to_dict",
                    "from_dict", "round_trip", "save", "load",
                    "cmd_sync", "cmd_run", "cmd_validate",
                    "run_command",
                    "check_git_installed", "compare_versions",
                    "truncate_string"}
    /\ outcome.kind \in {"none", "return", "raise"}
    /\ (call.op = "none") = (outcome.kind = "none")

(***************************************************************************)
(* Properties of run_component.  While a call's outcome is held (until     *)
(* Done) neither the filesystem nor the configuration changes, and         *)
(* run_component changes neither, so fs and config are those the call saw. *)
(***************************************************************************)
\* the tokens of part occur in text, next to one another and in order
Mentions(text, part) ==
    \E i \in 0..(Len(text) - Len(part)) :
        SubSeq(text, i + 1, i + Len(part)) = part

Occurrences(text, token) ==
    Cardinality({i \in 1..Len(text) : text[i] = token})

RanComponent == call.op = "run"

InMapping == call.component \in DOMAIN config.components

CalledPath == get_component_path(config, call.component)

CalledEnabled == config.components[call.component].enabled

\* the call got as far as the try block
Runnable == RanComponent /\ InMapping /\ IsDir(fs, CalledPath) /\ CalledEnabled

MainScript == Join(CalledPath, <<"main.py">>)

AppScript == Join(CalledPath, <<"app.py">>)

CallerArgs == IF call.args.none THEN <<>> ELSE call.args.items

\* C1: run_component raises SubmoduleNotFoundError whenever
\* is_component_available(id) is false, before every other check: an id that
\* is not in the mapping, and a component that is disabled and absent, both
\* get this error, and no child process is spawned.
C1_UnavailableRaisesSubmoduleNotFound ==
    (RanComponent /\ ~is_component_available(config, fs, call.component))
        => /\ outcome = Raise(SubmoduleNotFoundError(call.component))
           /\ trace = <<>>

C1_Witness ==
    /\ RanComponent
    /\ InMapping
    /\ ~CalledEnabled
    /\ ~Exists(fs, CalledPath)
    /\ outcome.error.kind = "SubmoduleNotFoundError"

\* C2: run_component on a component whose directory exists and whose enabled
\* flag is false fails with ComponentError and spawns nothing, with or
\* without an entry point, interactive or not.
C2_DisabledRaisesComponentError ==
    (RanComponent /\ InMapping /\ IsDir(fs, CalledPath) /\ ~CalledEnabled)
        => /\ outcome.kind = "raise"
           /\ outcome.error.kind = "ComponentError"
           /\ trace = <<>>

C2_Witness ==
    /\ RanComponent
    /\ InMapping
    /\ IsDir(fs, CalledPath)
    /\ ~CalledEnabled
    /\ Exists(fs, MainScript)
    /\ ~call.interactive
    /\ outcome.error =
           ComponentError(call.component, <<"Component is not enabled">>)

\* C3: for an available, enabled component the entry point is main.py
\* whenever main.py exists, app.py only when main.py does not exist, and with
\* neither the call fails with ComponentError and spawns nothing.
C3_EntryPointProbeOrder ==
    Runnable =>
        /\ Exists(fs, MainScript)
               => Len(trace) = 1 /\ trace[1].argv[2] = MainScript
        /\ (~Exists(fs, MainScript) /\ Exists(fs, AppScript))
               => Len(trace) = 1 /\ trace[1].argv[2] = AppScript
        /\ (~Exists(fs, MainScript) /\ ~Exists(fs, AppScript))
               => /\ outcome.kind = "raise"
                  /\ outcome.error.kind = "ComponentError"
                  /\ trace = <<>>

C3_Witness ==
    /\ Runnable
    /\ Exists(fs, MainScript)
    /\ Exists(fs, AppScript)
    /\ Len(trace) = 1
    /\ trace[1].argv[2] = MainScript

\* C4: with an entry point, run_component returns normally exactly when the
\* child exits with code 0, and then returns 0; for a child exit code N # 0,
\* interactive or not, it raises ComponentError whose message names the
\* component id and N.  It never returns a non-zero value.
C4_ReturnsOnlyZero ==
    /\ (RanComponent /\ outcome.kind = "return") => outcome.value = 0
    /\ (Runnable /\ Len(trace) = 1 /\ trace[1].result.type = "exit") =>
           LET N == trace[1].result.code
           IN  /\ (outcome.kind = "return") = (N = 0)
               /\ N # 0 =>
                    /\ outcome.error.kind = "ComponentError"
                    /\ Mentions(outcome.error.message, <<call.component>>)
                    /\ Mentions(outcome.error.message,
                                <<"Component exited with code ">> \o IntStr(N))

C4_Witness ==
    /\ Runnable
    /\ ~call.interactive
    /\ Len(trace) = 1
    /\ trace[1].result.type = "exit"
    /\ trace[1].result.code < 0
    /\ outcome.kind = "raise"

\* C5: a failure to launch the child, interactive or not, reaches the caller
\* as ComponentError that names the component id and contains the text of the
\* error that reached run_component's handler (the OS error when the child is
\* run directly, run_command's FactoryAIError otherwise); a ComponentError
\* raised inside is not wrapped a second time; run_component raises no error kind other than
\* SubmoduleNotFoundError and ComponentError.
C5_FailuresAreComponentErrors ==
    RanComponent =>
        /\ outcome.kind = "raise"
               => /\ outcome.error.kind
                         \in {"SubmoduleNotFoundError", "ComponentError"}
                  /\ outcome.error.kind = "ComponentError"
                         => Occurrences(outcome.error.message, "Component '") = 1
        /\ (Len(trace) = 1 /\ trace[1].result.type = "oserror") =>
               LET original == launch(trace[1].argv, trace[1].path,
                                      call.interactive, trace[1].result).error
               IN  /\ outcome.kind = "raise"
                   /\ outcome.error =
                          ComponentError(call.component, Str(original))
                   /\ Mentions(outcome.error.message, original.message)

C5_Witness ==
    /\ RanComponent
    /\ ~call.interactive
    /\ Len(trace) = 1
    /\ trace[1].result.error = "FileNotFoundError"
    /\ outcome.error.kind = "ComponentError"
    /\ Mentions(outcome.error.message, <<"Command not found: ", "python">>)

\* C6: the command launched is the interpreter, the entry-point script path
\* and then the caller's args in their order, nothing added, dropped or
\* changed (just the first two for args None or empty); the child's working
\* directory is the component directory.
C6_CommandIsScriptPlusArgs ==
    (RanComponent /\ trace # <<>>) =>
        /\ Len(trace) = 1
        /\ trace[1].ev = "spawn"
        /\ trace[1].argv[2] \in {MainScript, AppScript}
        /\ Exists(fs, trace[1].argv[2])
        /\ trace[1].argv = <<Interpreter, trace[1].argv[2]>> \o CallerArgs
        /\ trace[1].path = CalledPath

C6_Witness ==
    /\ RanComponent
    /\ Len(trace) = 1
    /\ call.args = ArgList(<<Word("80"), Word("--port")>>)
    /\ trace[1].argv = <<Interpreter, AppScript, Word("80"), Word("--port")>>
    /\ trace[1].path = CalledPath

(***************************************************************************)
(* Properties of sync_submodules.  The first event of its trace is the     *)
(* `git --version` probe of check_git_installed.                           *)
(***************************************************************************)
Synced == call.op = "sync"

\* this step is a call of sync_submodules
SyncStep == call.op = "none" /\ call'.op = "sync"

SubmodulesParent == Parent(config.submodules_dir)

IsSubmoduleSpawn(e) ==
    e.ev = "spawn" /\ Len(e.argv) >= 2 /\ e.argv[2] = Word("submodule")

SubmoduleSpawns(t) == {i \in 1..Len(t) : IsSubmoduleSpawn(t[i])}

Mkdirs(t) == {i \in 1..Len(t) : t[i].ev = "mkdir"}

\* C7: when git is reported not installed, sync_submodules raises
\* FactoryAIError "Git is not installed" whether or not the root directory is
\* a git repository, the filesystem is unchanged, no directory creation is
\* attempted and no git submodule command is executed.
C7_GitMissingTouchesNothing ==
    [][(SyncStep /\ ~check_git_installed(trace'[1].result)) =>
          /\ outcome'.kind = "raise"
          /\ outcome'.error.kind = "FactoryAIError"
          /\ outcome'.error.message = <<"Git is not installed">>
          /\ fs' = fs
          /\ Mkdirs(trace') = {}
          /\ SubmoduleSpawns(trace') = {}]_vars

C7_Witness ==
    /\ Synced
    /\ ~check_git_installed(trace[1].result)
    /\ ~is_git_repository(fs, config.root_dir)
    /\ ~Exists(fs, SubmodulesParent)
    /\ outcome.error.message = <<"Git is not installed">>

\* C8: when git is installed and the root directory has no .git directory,
\* sync_submodules raises FactoryAIError with a remediation detail, creates
\* no directory and executes no git submodule command; nothing is retried
\* (the probe is the only thing run).
C8_NotARepositoryTouchesNothing ==
    [][(SyncStep /\ check_git_installed(trace'[1].result)
           /\ ~IsDir(fs, Join(config.root_dir, <<".git">>))) =>
          /\ outcome'.kind = "raise"
          /\ outcome'.error.kind = "FactoryAIError"
          /\ outcome'.error.message
                 = <<"Not a git repository: ">> \o config.root_dir
          /\ outcome'.error.details # NoDetails
          /\ fs' = fs
          /\ Len(trace') = 1]_vars

C8_Witness ==
    /\ Synced
    /\ check_git_installed(trace[1].result)
    /\ fs[GitDir] = "file"
    /\ ~Exists(fs, SubmodulesParent)
    /\ outcome.error.kind = "FactoryAIError"
    /\ Len(trace) = 1

\* C9: when both preconditions hold, the git submodule command is run only
\* after the parent of the submodules directory is a directory, and then
\* exactly once, as the last thing done, in the root directory with
\* check=true; it is git submodule update --init --recursive, with --force
\* as the last argument if and only if force is true.
C9_EnsureThenUpdateOnce ==
    (Synced /\ check_git_installed(trace[1].result)
        /\ is_git_repository(fs, config.root_dir)) =>
        LET subs == SubmoduleSpawns(trace)
            base == <<Word("git"), Word("submodule"), Word("update"),
                      Word("--init"), Word("--recursive")>>
        IN  /\ IsDir(fs, SubmodulesParent) = (Cardinality(subs) = 1)
            /\ Cardinality(subs) <= 1
            /\ \A i \in subs :
                  /\ i = Len(trace)
                  /\ \A j \in Mkdirs(trace) :
                        j < i /\ trace[j].path = SubmodulesParent
                  /\ trace[i].path = config.root_dir
                  /\ trace[i].check
                  /\ trace[i].argv =
                        IF call.force THEN Append(base, Word("--force"))
                        ELSE base

C9_Witness ==
    /\ Synced
    /\ call.force
    /\ Len(trace) = 3
    /\ trace[2].ev = "mkdir"
    /\ trace[2].path = SubmodulesParent
    /\ IsSubmoduleSpawn(trace[3])
    /\ trace[3].argv[Len(trace[3].argv)] = Word("--force")
    /\ outcome.kind = "return"

\* C10: every failure of sync_submodules is a FactoryAIError (a non-zero
\* exit or a missing executable of the git submodule command, a directory
\* that cannot be created), and sync_submodules returns normally only if the
\* git submodule command was run and exited with code 0.
C10_SyncFailsWithFactoryAIError ==
    Synced =>
        /\ outcome.kind = "raise" => outcome.error.kind \in FactoryAIErrorKinds
        /\ outcome.kind = "return" =>
              /\ IsSubmoduleSpawn(trace[Len(trace)])
              /\ trace[Len(trace)].result.type = "exit"
              /\ trace[Len(trace)].result.code = 0
        /\ \A i \in 1..Len(trace) :
              (/\ i > 1
               /\ \/ trace[i].result.type = "oserror"
                  \/ trace[i].result.type = "exit" /\ trace[i].result.code # 0
                  \/ trace[i].result.type = "mkdir" /\ trace[i].result.error # "ok")
                  => outcome.kind = "raise"

C10_Witness ==
    /\ Synced
    /\ Len(trace) = 2
    /\ IsSubmoduleSpawn(trace[2])
    /\ trace[2].result.type = "exit"
    /\ trace[2].result.code # 0
    /\ outcome.kind = "raise"
    /\ outcome.error.kind = "FactoryAIError"
    /\ Mentions(outcome.error.message,
                <<"Command failed with exit code ">>
                    \o IntStr(trace[2].result.code))

\* C29: in sync_submodules with both preconditions met, if the parent of
\* the submodules directory exists and is not a directory, or cannot be
\* created, FactoryAIError is raised and the git submodule command is never
\* executed; if it already is a directory nothing is created and the
\* command is run.
C29_ParentDirectoryGuardsUpdate ==
    [][(SyncStep /\ check_git_installed(trace'[1].result)
           /\ is_git_repository(fs, config.root_dir)) =>
          /\ (Exists(fs, SubmodulesParent) /\ ~IsDir(fs, SubmodulesParent)) =>
                /\ outcome'.kind = "raise"
                /\ outcome'.error.kind = "FactoryAIError"
                /\ SubmoduleSpawns(trace') = {}
                /\ Mkdirs(trace') = {}
                /\ fs' = fs
          /\ (\E i \in Mkdirs(trace') : trace'[i].result.error # "ok") =>
                /\ ~Exists(fs, SubmodulesParent)
                /\ outcome'.kind = "raise"
                /\ outcome'.error.kind = "FactoryAIError"
                /\ SubmoduleSpawns(trace') = {}
                /\ fs' = fs
          /\ IsDir(fs, SubmodulesParent) =>
                /\ Mkdirs(trace') = {}
                /\ fs' = fs
                /\ Cardinality(SubmoduleSpawns(trace')) = 1]_vars

\* a sync found a regular file where the parent directory should be, and
\* raised without running the git submodule command
C29_Witness ==
    /\ Synced
    /\ check_git_installed(trace[1].result)
    /\ is_git_repository(fs, config.root_dir)
    /\ fs[SubmodulesParent] = "file"
    /\ outcome.kind = "raise"
    /\ outcome.error.kind = "FactoryAIError"
    /\ Len(trace) = 1

(***************************************************************************)
(* Properties of the read operations.                                      *)
(***************************************************************************)
StatusFields == {"name", "enabled", "available", "path", "url"}

\* this step is a call of the operation op
CallStep(op) == call.op = "none" /\ call'.op = op

\* C11: for every id of the mapping, the available field reported by
\* get_component_status is true if and only if the resolved path exists and
\* is a directory, that is, it equals is_component_available(id), also when
\* the path exists as a regular file.
C11_AvailableMeansDirectory ==
    call.op = "status" =>
        \A id \in DOMAIN config.components :
            outcome.value[id].available
                = is_component_available(config, fs, id)

\* C12: get_component_status never fails and only reads: its result has
\* exactly one entry per id of the mapping, each with the fields name,
\* enabled, available, path and url taken from the descriptor and the
\* resolved path, and the configuration and the filesystem are unchanged.
C12_StatusIsPureRead ==
    [][CallStep("status") =>
          /\ outcome'.kind = "return"
          /\ DOMAIN outcome'.value = DOMAIN config.components
          /\ \A id \in DOMAIN config.components :
                LET st == outcome'.value[id]
                IN  /\ DOMAIN st = StatusFields
                    /\ st.name = config.components[id].name
                    /\ st.enabled = config.components[id].enabled
                    /\ st.url = config.components[id].url
                    /\ st.path = PathStr(Join(config.root_dir,
                                              config.components[id].path))
                    /\ st.available \in BOOLEAN
          /\ fs' = fs
          /\ config' = config]_vars

C12_Witness ==
    /\ call.op = "status"
    /\ ComponentsOnDisk(fs) # {}
    /\ Toggled(config) # {}
    /\ Cardinality(DOMAIN outcome.value) = 3
    /\ \E id \in DOMAIN outcome.value :
          ~outcome.value[id].enabled /\ outcome.value[id].available

\* C14: validate_installation evaluates its three checks without stopping
\* at a failed one and reports git_installed, is_git_repo,
\* submodules_initialized (some component of the reported status map is
\* enabled and available), the status map, and an errors list with one
\* string per failing check, in the order git, repository, components, and
\* no string for a check that passed.
C14_ValidateReportsEveryCheck ==
    call.op = "validate" =>
        LET r   == outcome.value
            git == trace[1].result.type = "exit" /\ trace[1].result.code = 0
            rep == IsDir(fs, Join(config.root_dir, <<".git">>))
            ini == \E id \in DOMAIN r.components :
                      r.components[id].enabled /\ r.components[id].available
        IN  /\ outcome.kind = "return"
            /\ r.git_installed = git
            /\ r.is_git_repo = rep
            /\ r.components = get_component_status(config, fs)
            /\ r.submodules_initialized = ini
            /\ r.errors =
                  (IF ~git THEN <<GitMissingText>> ELSE <<>>)
                  \o (IF ~rep THEN <<NotARepositoryText>> ELSE <<>>)
                  \o (IF ~ini THEN <<NoComponentsText>> ELSE <<>>)

C14_Witness ==
    /\ call.op = "validate"
    /\ Len(outcome.value.errors) = 3
    /\ outcome.value.errors[3] = NoComponentsText
    /\ ComponentsOnDisk(fs) # {}

\* C15: is_component_available never raises; it is false for an id that is
\* not in the mapping, and for an id of the mapping it is true if and only
\* if root_dir joined with the descriptor's path is a directory (false for a
\* missing path and for a regular file), whatever the enabled flag.
C15_AvailableIffDirectory ==
    call.op = "available" =>
        /\ outcome.kind = "return"
        /\ outcome.value =
              (/\ InMapping
               /\ fs[Join(config.root_dir,
                          config.components[call.component].path)] = "dir")

C15_Witness ==
    /\ call.op = "available"
    /\ InMapping
    /\ ~CalledEnabled
    /\ IsDir(fs, CalledPath)
    /\ outcome.value = TRUE

\* C16: for an id that is not in the mapping, get_component_path raises
\* ConfigurationError and is_component_available returns false at every
\* call, whatever was done before; neither call changes the configuration
\* or the filesystem, and no step ever adds an id to the mapping.
C16_UnknownIdConsistently ==
    [][/\ DOMAIN config'.components = DOMAIN config.components
       /\ (/\ call.op = "none"
           /\ call'.op \in {"path", "available"}
           /\ call'.component \notin DOMAIN config.components) =>
              /\ call'.op = "path" =>
                    /\ outcome'.kind = "raise"
                    /\ outcome'.error.kind = "ConfigurationError"
                    /\ Mentions(outcome'.error.message, <<call'.component>>)
              /\ call'.op = "available" => outcome' = Return(FALSE)
              /\ config' = config
              /\ fs' = fs]_vars

C16_Witness ==
    /\ call.op = "path"
    /\ call.component = UnknownId
    /\ outcome.error.kind = "ConfigurationError"
    /\ Toggled(config) # {}
    /\ IsDir(fs, GitDir)
    /\ ComponentsOnDisk(fs) # {}

\* what a status map must say of the filesystem f and configuration cfg: the
\* ids and enabled flags of cfg, available for every component directory of
\* f and for no path that f does not hold
ReflectsNow(m, cfg, f) ==
    /\ DOMAIN m = DOMAIN cfg.components
    /\ \A id \in DOMAIN cfg.components :
          LET path == Join(cfg.root_dir, cfg.components[id].path)
          IN  /\ m[id].enabled = cfg.components[id].enabled
              /\ IsDir(f, path) => m[id].available
              /\ m[id].available => Exists(f, path)

\* C13: availability is never cached: whatever filesystem changes, toggles
\* of enabled flags and earlier calls came before, each call of
\* get_component_status, validate_installation, info and
\* is_component_available reports the filesystem and the configuration as
\* they are at the moment of that call.
C13_ReportsLiveState ==
    [][(call.op = "none" /\ call'.op \in ReadOps) =>
          LET v == outcome'.value
          IN  /\ outcome'.kind = "return"
              /\ call'.op = "status" => ReflectsNow(v, config, fs)
              /\ call'.op = "validate" =>
                    /\ ReflectsNow(v.components, config, fs)
                    /\ v.is_git_repo = IsDir(fs, Join(config.root_dir, <<".git">>))
                    /\ v.submodules_initialized =
                          (\E id \in DOMAIN v.components :
                              /\ v.components[id].enabled
                              /\ v.components[id].available)
              /\ call'.op = "info" =>
                    /\ ReflectsNow(v.components, config, fs)
                    /\ v.log_level = config.log_level
              /\ call'.op = "available" =>
                    v = (/\ call'.component \in DOMAIN config.components
                         /\ IsDir(fs, Join(config.root_dir,
                               config.components[call'.component].path)))]_vars

\* a later call reports other components available than the call before it
C13_Witness ==
    /\ call.op \in ReadOps
    /\ reported.made
    /\ reported.available # {}
    /\ Observed(call, outcome) # {}
    /\ Observed(call, outcome) # reported.available

(***************************************************************************)
(* Properties of the configuration's construction and dictionary form, in  *)
(* sessions of SpecConfig.  A construct call holds the constructed         *)
(* configuration in its outcome, a from_dict or round_trip call the one    *)
(* read back, or the error raised.                                         *)
(***************************************************************************)
\* the three ids of the default mapping, factory-debug alone disabled
ThreeDefaults(components) ==
    /\ DOMAIN components =
          {"factory-app-ai", "factory-feature", "factory-debug"}
    /\ \A id \in DOMAIN components :
          components[id].enabled = (id # "factory-debug")

\* the component entries a from_dict call was given
GivenEntries == DictGet(call.data, "components", NoData)

\* C17: a configuration constructed with an empty or omitted component
\* mapping, by the constructor or by from_dict and for any root directory,
\* has exactly the three default ids with factory-debug the only one
\* disabled; a non-empty mapping is kept as given, no default added.
C17_DefaultsOnlyWhenEmpty ==
    /\ call.op = "construct" =>
          IF DOMAIN Supplied(call.data) = {}
          THEN ThreeDefaults(outcome.value.components)
          ELSE outcome.value.components = Supplied(call.data)
    /\ (call.op = "from_dict" /\ outcome.kind = "return") =>
          IF DOMAIN GivenEntries = {}
          THEN ThreeDefaults(outcome.value.components)
          ELSE /\ DOMAIN outcome.value.components = DOMAIN GivenEntries
               /\ \A id \in DOMAIN GivenEntries :
                     LET entry == GivenEntries[id]
                         comp  == outcome.value.components[id]
                     IN  /\ comp.name = entry.name
                         /\ comp.path = entry.path
                         /\ comp.url = entry.url
                         /\ comp.enabled =
                               DictGet(entry, "enabled", TRUE)

\* from_dict read a record without a components key and with a relative
\* root directory, and returned the three defaults
C17_Witness ==
    /\ call.op = "from_dict"
    /\ "components" \notin DOMAIN call.data
    /\ "root_dir" \in DOMAIN call.data
    /\ ~IsAbsolute(ParsePath(call.data.root_dir))
    /\ outcome.kind = "return"
    /\ ThreeDefaults(outcome.value.components)

\* the configuration a construct, from_dict or round_trip call returned
Produced == outcome.value

\* C19: after construction, directly or through from_dict, submodules_dir
\* is an absolute path for every root_dir, a relative root_dir included: a
\* relative one has been joined to root_dir, an absolute one is kept.
C19_SubmodulesDirAbsolute ==
    /\ call.op = "construct" =>
          /\ IsAbsolute(Produced.submodules_dir)
          /\ Produced.submodules_dir =
                IF IsAbsolute(call.data.submodules_dir)
                THEN call.data.submodules_dir
                ELSE Join(call.data.root_dir, call.data.submodules_dir)
    /\ (call.op = "from_dict" /\ outcome.kind = "return") =>
          IsAbsolute(Produced.submodules_dir)

\* the configuration as the constructor would leave it: an emptied mapping
\* is the three defaults again
Repopulated(cfg) ==
    [cfg EXCEPT !.components = IF DOMAIN cfg.components = {}
                               THEN DefaultComponents
                               ELSE cfg.components]

\* C18: from_dict(to_dict(c)) equals c field for field, whatever the root
\* directory (relative included), log file (null included) and enabled
\* flags, a mapping emptied after construction coming back as the three
\* defaults.
C18_RoundTripReproduces ==
    call.op = "round_trip" => outcome = Return(Repopulated(config))

\* a record without root_dir, or with a component entry that lacks name,
\* path or url or carries a key that is not a field
Malformed(data) ==
    \/ "root_dir" \notin DOMAIN data
    \/ \E id \in DOMAIN DictGet(data, "components", NoData) :
          LET entry == data.components[id]
          IN  \/ ~(RequiredSubmoduleFields \subseteq DOMAIN entry)
              \/ ~(DOMAIN entry \subseteq SubmoduleFields)

\* C20: from_dict rejects malformed input (no root_dir key; a component
\* entry missing name, path or url, or with an unknown key) with a
\* ConfigurationError, and produces no configuration.
C20_MalformedIsConfigurationError ==
    (call.op = "from_dict" /\ Malformed(call.data)) =>
        /\ outcome.kind = "raise"
        /\ outcome.error.kind = "ConfigurationError"

\* what the one open of a save or load call came to, and the record read
Opened == trace[1].result

\* C21: load raises ConfigurationError and no other kind for every failure
\* (missing file, content that is not valid JSON, a record from_dict cannot
\* turn into a configuration), and save raises only ConfigurationError when
\* writing fails.
C21_LoadSaveRaiseConfigurationError ==
    /\ call.op = "load" =>
          /\ outcome.kind = "raise" =>
                outcome.error.kind = "ConfigurationError"
          /\ (\/ Opened.state # "ok"
              \/ from_dict(Opened.data).kind = "raise") =>
                outcome.kind = "raise"
          /\ (Opened.state = "ok" /\ from_dict(Opened.data).kind = "return")
                => outcome = from_dict(Opened.data)
    /\ call.op = "save" =>
          /\ outcome.kind = "raise" =>
                outcome.error.kind = "ConfigurationError"
          /\ (outcome.kind = "raise") = (Opened.state # "ok")

\* load read a well-formed JSON record that has no root_dir and raised
\* ConfigurationError
C21_Witness ==
    /\ call.op = "load"
    /\ Opened.state = "ok"
    /\ "root_dir" \notin DOMAIN Opened.data
    /\ outcome.kind = "raise"
    /\ outcome.error.kind = "ConfigurationError"

(***************************************************************************)
(* Properties of the helpers of utils.py, in sessions of SpecUtils.  The   *)
(* call holds the arguments in its data, the trace the launches made.      *)
(***************************************************************************)
\* what the one launch of the call came to
Launched == trace[1].result

\* C22: run_command with check=true and a non-zero exit code raises a
\* FactoryAIError with the exit code in its message and the command line
\* and the captured stderr in its details; with check=false it raises
\* nothing and returns (exit code, stdout, stderr).
C22_CheckedFailureCarriesDetails ==
    (call.op = "run_command" /\ Launched.type = "exit" /\ Launched.code # 0) =>
        IF call.data.check
        THEN /\ outcome.kind = "raise"
             /\ outcome.error.kind = "FactoryAIError"
             /\ Mentions(outcome.error.message, IntStr(Launched.code))
             /\ Mentions(outcome.error.details, JoinWords(call.data.command))
             /\ Mentions(outcome.error.details,
                         <<IF call.data.capture_output
                           THEN ChildStderr ELSE "">>)
        ELSE outcome =
                Return(<<Launched.code,
                         IF call.data.capture_output THEN ChildStdout ELSE "",
                         IF call.data.capture_output THEN ChildStderr ELSE "">>)

\* C23: run_command launches once; when the executable is not found it
\* raises FactoryAIError "Command not found: " with command[0]; whatever it
\* raises is a FactoryAIError; check_git_installed returns a boolean and
\* never raises.
C23_OneAttemptOnlyFactoryAIError ==
    /\ call.op = "run_command" =>
          /\ Len(trace) = 1
          /\ outcome.kind = "raise" => outcome.error.kind = "FactoryAIError"
          /\ (Launched.type = "oserror"
                 /\ Launched.error = "FileNotFoundError") =>
                /\ outcome.kind = "raise"
                /\ outcome.error.message =
                      <<"Command not found: ">> \o call.data.command[1]
    /\ call.op = "check_git_installed" =>
          /\ Len(trace) = 1
          /\ outcome.kind = "return"
          /\ outcome.value \in BOOLEAN

\* the executable of a command was not found and the error names it
C23_Witness ==
    /\ call.op = "run_command"
    /\ call.data.command = <<Word("nonexistent-command-xyz")>>
    /\ Launched.type = "oserror"
    /\ Launched.error = "FileNotFoundError"
    /\ outcome.kind = "raise"
    /\ outcome.error.message =
          <<"Command not found: ", "nonexistent-command-xyz">>

\* the lexicographic order of integer tuples, a proper prefix first
RECURSIVE LexLess(_, _)
LexLess(t1, t2) ==
    IF t1 = <<>> THEN t2 # <<>>
    ELSE IF t2 = <<>> THEN FALSE
    ELSE \/ Head(t1) < Head(t2)
         \/ Head(t1) = Head(t2) /\ LexLess(Tail(t1), Tail(t2))

\* both version strings of the call parse
BothValid ==
    /\ parse_version(call.data.version1).kind = "return"
    /\ parse_version(call.data.version2).kind = "return"

\* C24: for valid a and b, compare_versions(a, b) is -1, 0 or 1 by the
\* lexicographic order of the parsed integer tuples, without padding: a
\* proper prefix is smaller than its extension, equal tuples give 0, and
\* compare_versions(a, b) = -compare_versions(b, a).
C24_CompareIsLexicographic ==
    (call.op = "compare_versions" /\ BothValid) =>
        LET t1 == parse_version(call.data.version1).value
            t2 == parse_version(call.data.version2).value
        IN  /\ outcome.kind = "return"
            /\ outcome.value = (IF LexLess(t1, t2) THEN -1
                                ELSE IF LexLess(t2, t1) THEN 1 ELSE 0)
            /\ (Len(t1) < Len(t2) /\ SubSeq(t2, 1, Len(t1)) = t1) =>
                   outcome.value = -1
            /\ t1 = t2 => outcome.value = 0
            /\ compare_versions(call.data.version2, call.data.version1)
                  = Return(0 - outcome.value)

\* "0.1" was compared with "0.1.0" and came out smaller
C24_Witness ==
    /\ call.op = "compare_versions"
    /\ call.data.version1 = <<"0", ".", "1">>
    /\ call.data.version2 = <<"0", ".", "1", ".", "0">>
    /\ outcome = Return(-1)

\* text ends with suffix
EndsWith(text, suffix) ==
    /\ Len(suffix) <= Len(text)
    /\ SubSeq(text, Len(text) - Len(suffix) + 1, Len(text)) = suffix

\* C30: truncate_string returns text unchanged when it is no longer than
\* max_length, otherwise a string of exactly max_length characters that
\* ends with suffix; the result is never longer than max_length, also when
\* max_length is smaller than the length of suffix.
C30_TruncatedToMaxLength ==
    call.op = "truncate_string" =>
        LET text       == call.data.text
            max_length == call.data.max_length
            suffix     == call.data.suffix
        IN  /\ Len(text) <= max_length => outcome.value = text
            /\ Len(text) > max_length =>
                  /\ Len(outcome.value) = max_length
                  /\ EndsWith(outcome.value, suffix)
            /\ Len(outcome.value) <= max_length

(***************************************************************************)
(* Properties of the orchestrator as a whole.                              *)
(***************************************************************************)
OrchestratorOps == {"sync", "status", "run", "validate", "info"}

\* C28: no orchestrator operation changes the configuration: across every
\* call of sync_submodules, get_component_status, run_component,
\* validate_installation and info, returning or raising, root_dir,
\* submodules_dir, log_level, log_file and every component descriptor with
\* its enabled flag stay what they were.
C28_OperationsLeaveConfiguration ==
    [][(call'.op \in OrchestratorOps \/ call.op \in OrchestratorOps) =>
          /\ config'.root_dir = config.root_dir
          /\ config'.submodules_dir = config.submodules_dir
          /\ config'.log_level = config.log_level
          /\ config'.log_file = config.log_file
          /\ config'.components = config.components]_vars

\* a run of a component the caller had switched on raised, and the
\* component is still switched on
C28_Witness ==
    /\ call.op = "run"
    /\ call.component = "factory-debug"
    /\ outcome.kind = "raise"
    /\ config.components["factory-debug"].enabled

\* C27: in every report of validate_installation, valid is true if and only
\* if the errors list is empty: a failing check that adds an error string,
\* "No components are initialized" included, makes valid false.
C27_ValidIffNoErrors ==
    call.op = "validate" =>
        (outcome.value.valid = (outcome.value.errors = <<>>))

(***************************************************************************)
(* Properties of the command handlers, in sessions of SpecCli.  A handler's *)
(* call keeps, in its data, what the orchestrator call it made returned or *)
(* raised, and its trace is that of the orchestrator call.                 *)
(***************************************************************************)
\* what the orchestrator call made by the handler came to
Orchestrated == call.data.result

\* the exit code the claim gives to an orchestrator outcome
ExitCodeFor(r) == IF r.kind = "return" THEN 0 ELSE 1

\* C25: cmd_sync and cmd_run return 0 when the orchestrator call succeeds
\* and 1 when it raises a FactoryAIError; a non-zero exit of the child is
\* raised as ComponentError, so run exits with 0 or 1 and a child's code N
\* is reported as 1.
C25_ExitCodeZeroOrOne ==
    /\ call.op \in {"cmd_sync", "cmd_run"} =>
          /\ Orchestrated.kind = "raise" =>
                Orchestrated.error.kind \in FactoryAIErrorKinds
          /\ outcome = Return(ExitCodeFor(Orchestrated))
    /\ call.op = "cmd_run" =>
          \A i \in 1..Len(trace) :
             (trace[i].result.type = "exit" /\ trace[i].result.code # 0) =>
                /\ Orchestrated.kind = "raise"
                /\ Orchestrated.error.kind = "ComponentError"
                /\ outcome = Return(1)

\* the child of a run exited with code 2 and the handler returned 1
C25_Witness ==
    /\ call.op = "cmd_run"
    /\ Len(trace) = 1
    /\ trace[1].result.type = "exit"
    /\ trace[1].result.code = 2
    /\ outcome = Return(1)

\* C26: cmd_validate returns 1 if and only if the errors list of the
\* validation report is not empty, 0 otherwise; so it returns 1 when git
\* is installed and the root is a git repository but the report has no
\* component that is enabled and available.
C26_ValidateExitFollowsErrors ==
    call.op = "cmd_validate" =>
        LET report == validate_installation(config, fs, trace[1].result)
        IN  /\ outcome = Return(IF report.errors # <<>> THEN 1 ELSE 0)
            /\ (/\ report.git_installed
                /\ report.is_git_repo
                /\ \A id \in DOMAIN report.components :
                      ~(report.components[id].enabled
                           /\ report.components[id].available)) =>
                  outcome = Return(1)

\* git is installed, the root is a git repository, no component is there,
\* and validate exits 1
C26_Witness ==
    /\ call.op = "cmd_validate"
    /\ check_git_installed(trace[1].result)
    /\ is_git_repository(fs, config.root_dir)
    /\ \A id \in DOMAIN config.components :
          ~Exists(fs, get_component_path(config, id))
    /\ outcome = Return(1)
====
